---- MODULE Spec2Model ----
(***************************************************************************)
(* AxiMMIO (frontends/PyCDE/src/bsp/common.py): the AXI-lite MMIO service. *)
(*                                                                         *)
(* Two phases are modelled.                                                *)
(*  - Generation: AxiMMIO.generate runs build_table over the client        *)
(*    bundles (one step of the for loop per action), then build_read and   *)
(*    build_write elaborate the circuit.                                   *)
(*  - Hardware: a synchronous circuit.  A state is one clock cycle: the    *)
(*    values the registers hold during the cycle and the values `in` the   *)
(*    environment drives on the input ports during the cycle.  Wires are   *)
(*    state functions of both.  Clock and Reset are the clock edge with    *)
(*    rst low and high.                                                    *)
(***************************************************************************)
EXTENDS Integers, Sequences, FiniteSets, TLC

\* ------------------------------------------------------------------ bounds
\* Length of the long run of client bundles that precedes the free tail.
LongPrefix == 63
\* Length of the freely chosen tail of the bundle list.
MaxTail == 2
\* rd_age stops counting here.
MaxAge == 5
\* aw_credit and w_credit count exactly up to here.
MaxCredit == 2
\* Writes to the manifest offsets remembered since reset.
MaxHist == 3
\* trig_count stops counting here.
MaxTrig == 2

\* ------------------------------------------------------- program constants
\* A 32-bit word is <<upper 16 bits, lower 16 bits>>.
Word32(hi, lo) == <<hi, lo>>

\* An unsigned number below 2^31 as a 32-bit word.
ToWord(n) == Word32(n \div 65536, n % 65536)

\* 0xE5100E51
MagicNumberLo == Word32(58640, 3665)
\* 0x207D98E5
MagicNumberHi == Word32(8317, 39141)
VersionNumber == 0
initial_offset == 256
manifest_offset == 24

\* A register no reset or load has given a value yet: an address, a word.
Undef == 0 - 1
UndefWord == <<>>

VARIABLES
  \* generation (locals of generate / build_table)
  pc, bundles, idx, offset, read_table, write_table, manifest_loc,
  \* input ports during the current cycle
  in,
  \* read path registers
  req_outstanding, address, address_valid, mani_valid_reg, data_out_valid,
  data_pipeline_reg, data_pipeline_rresp_reg, rom_pipe,
  \* write path registers
  addr_lo, addr_lo_valid, addr_hi, addr_hi_valid, writing, latched_aw,
  latched_w,
  \* observers of the bus (history of handshakes, no part of the circuit)
  rd_open, rd_age, aw_credit, w_credit, wr_hist, trig_count, since_lo,
  since_hi, wrote_lo, wrote_hi, rd_pending, rv_periods, aw_seen, w_seen,
  \* the second run of a two-run comparison: its registers and outputs while
  \* the first run's are in the circuit (and the other way round), whose turn
  \* it is, and the path under comparison
  twin, turn, side

tableVars == <<bundles, idx, offset, read_table, write_table, manifest_loc>>
rdRegs == <<req_outstanding, address, address_valid, mani_valid_reg,
            data_out_valid, data_pipeline_reg, data_pipeline_rresp_reg,
            rom_pipe>>
wrRegs == <<addr_lo, addr_lo_valid, addr_hi, addr_hi_valid, writing,
            latched_aw, latched_w>>
busVars == <<rd_open, rd_age, aw_credit, w_credit, wr_hist, trig_count,
             since_lo, since_hi, wrote_lo, wrote_hi, rd_pending, rv_periods,
             aw_seen, w_seen>>
twinVars == <<twin, turn, side>>
obsVars == <<busVars, twinVars>>
vars == <<pc, tableVars, in, rdRegs, wrRegs, obsVars>>

\* ------------------------------------------------------------ arithmetic
RECURSIVE bit_length(_)
bit_length(n) == IF n = 0 THEN 0 ELSE 1 + bit_length(n \div 2)

Pow2(k) == 2 ^ k

Min(a, b) == IF a < b THEN a ELSE b

Max(a, b) == IF a > b THEN a ELSE b

\* --------------------------------------------------- generation: the table
Directions == {"Input", "Output", "Other"}

\* The long prefix alternates read- and write-direction bundles.
PrefixDir(k) == IF k % 2 = 1 THEN "Input" ELSE "Output"

Prefix(n) == [k \in 1..n |-> PrefixDir(k)]

Tails == UNION {[1..n -> Directions] : n \in 0..MaxTail}

BundleLists == {Prefix(n) \o t : n \in {0, LongPrefix}, t \in Tails}

EmptyTable == [o \in {} |-> 0]

\* table[offset] = bundle (a dict store; the bundle is named by its position)
Store(table, o, b) ==
  [k \in DOMAIN table \cup {o} |-> IF k = o THEN b ELSE table[k]]

\* Mutant: byte steps, offset += 1.
NextOffset_byte(o) == o + 1

NextOffset(o) == o + 4

\* Mutant: the highest set bit of the offset, 1 << (offset.bit_length() - 1).
ManifestLoc_floor(o) == Pow2(bit_length(o) - 1)

ManifestLoc(o) == Pow2(bit_length(o))


\* One iteration of `for bundle in bundles.to_client_reqs` (lines 116-122).
TableStep ==
  /\ pc = "build_table"
  /\ idx <= Len(bundles)
  /\ IF bundles[idx] = "Input"
       THEN /\ read_table' = Store(read_table, offset, idx)
            /\ offset' = NextOffset(offset)
            /\ UNCHANGED write_table
       ELSE IF bundles[idx] = "Output"
         THEN /\ write_table' = Store(write_table, offset, idx)
              /\ offset' = NextOffset(offset)
              /\ UNCHANGED read_table
         ELSE UNCHANGED <<read_table, write_table, offset>>
  /\ idx' = idx + 1
  /\ UNCHANGED <<pc, bundles, manifest_loc, in, rdRegs, wrRegs, obsVars>>

\* Mutant: the base is taken from the offset after the last entry of the
\* read table, whatever the write table holds.
TableReturn_from_read_table ==
  /\ pc = "build_table"
  /\ idx > Len(bundles)
  /\ manifest_loc' =
       ManifestLoc(IF read_table = EmptyTable THEN initial_offset
                   ELSE NextOffset(CHOOSE o \in DOMAIN read_table :
                                     \A q \in DOMAIN read_table : q <= o))
  /\ pc' = "generate"
  /\ UNCHANGED <<bundles, idx, offset, read_table, write_table, in, rdRegs,
                 wrRegs, obsVars>>

\* The loop is over: manifest_loc = 1 << offset.bit_length(), return.
TableReturn ==
  /\ pc = "build_table"
  /\ idx > Len(bundles)
  /\ manifest_loc' = ManifestLoc(offset)
  /\ pc' = "generate"
  /\ UNCHANGED <<bundles, idx, offset, read_table, write_table, in, rdRegs,
                 wrRegs, obsVars>>

\* ------------------------------------------------------------ input ports
\* The addresses the model drives on araddr: the four documented header
\* words, an unaligned address, the slot after the header array, an address
\* between 0x100 and 0x200, and two addresses at and above 0x200.
RdAddrs == {8, 10, 12, 16, 20, 24, 296, 512, 1028}

\* The addresses the model drives on awaddr: the two manifest halves and one
\* other address.
WrAddrs == {manifest_offset, manifest_offset + 4, 32}

\* A value an undefined 32-bit signal may take.
XWords == {Word32(0, 0), Word32(65535, 65535)}

\* <<valid, payload>>; the payload of a channel whose valid is low is 0.
IdleChan == <<FALSE, 0>>
RdChan == {IdleChan} \cup ({TRUE} \X RdAddrs)
WrChan == {IdleChan} \cup ({TRUE} \X WrAddrs)

Inp(rst, ar, rr, aw, wv, br) ==
  [rst |-> rst, arvalid |-> ar[1], araddr |-> ar[2], rready |-> rr,
   awvalid |-> aw[1], awaddr |-> aw[2], wvalid |-> wv, bready |-> br]

Idle == Inp(FALSE, IdleChan, FALSE, IdleChan, FALSE, FALSE)

\* While rst is high the requester drives ARVALID, AWVALID and WVALID low
\* (AXI reset rule); ResetAnyInputs lifts that.
ReadInputs ==
  {Inp(FALSE, ar, rr, IdleChan, FALSE, FALSE) : ar \in RdChan, rr \in BOOLEAN}
  \cup {Inp(TRUE, IdleChan, rr, IdleChan, FALSE, FALSE) : rr \in BOOLEAN}

WriteInputs ==
  {Inp(FALSE, IdleChan, FALSE, aw[1], aw[2], br) :
     aw \in WrChan \X BOOLEAN, br \in BOOLEAN}
  \cup {Inp(TRUE, IdleChan, FALSE, IdleChan, FALSE, br) : br \in BOOLEAN}

AllInputs ==
  {Inp(FALSE, ar[1], ar[2], aw[1], aw[2], br) :
     ar \in RdChan \X BOOLEAN, aw \in WrChan \X BOOLEAN, br \in BOOLEAN}
  \cup {Inp(TRUE, IdleChan, rr, IdleChan, FALSE, br) :
          rr \in BOOLEAN, br \in BOOLEAN}

\* Both channels driven at once, from a reduced set: on the read channels
\* nothing, rready alone, a header address offered, a backing-store address
\* offered with rready; on the write channels nothing, a data phase alone, the
\* low half with its data phase, the high half alone.
BothInputs ==
  {Inp(FALSE, rd[1], rd[2], wr[1], wr[2], FALSE) :
     rd \in {<<IdleChan, FALSE>>, <<IdleChan, TRUE>>, <<<<TRUE, 8>>, FALSE>>,
             <<<<TRUE, 512>>, TRUE>>},
     wr \in {<<IdleChan, FALSE>>, <<IdleChan, TRUE>>,
             <<<<TRUE, manifest_offset>>, TRUE>>,
             <<<<TRUE, manifest_offset + 4>>, FALSE>>}}
  \cup {Inp(TRUE, IdleChan, FALSE, IdleChan, FALSE, FALSE)}

\* The read channels driven, by a requester that may also hold arvalid
\* asserted while rst is high.
ReadAnyInputs ==
  ReadInputs
  \cup {Inp(TRUE, ar, rr, IdleChan, FALSE, FALSE) :
          ar \in RdChan, rr \in BOOLEAN}

\* The read channels driven, from a reduced set of addresses: one header
\* word and one backing-store word, each with rready high or low.
ProgressInputs ==
  {Inp(FALSE, ar, rr, IdleChan, FALSE, FALSE) :
     ar \in {IdleChan, <<TRUE, 8>>, <<TRUE, 512>>}, rr \in BOOLEAN}
  \cup {Inp(TRUE, IdleChan, rr, IdleChan, FALSE, FALSE) : rr \in BOOLEAN}

ResetAnyInputs ==
  {Inp(TRUE, ar[1], ar[2], aw[1], aw[2], br) :
     ar \in RdChan \X BOOLEAN, aw \in WrChan \X BOOLEAN, br \in BOOLEAN}

\* -------------------------------------------------------------- primitives
\* ControlReg: assert wins over reset-input, rst wins over both.
ControlReg(q, asserts, resets, rst) ==
  IF rst THEN FALSE
  ELSE IF asserts THEN TRUE
  ELSE IF resets THEN FALSE
  ELSE q

\* signal.reg(clk, ce=ce): no reset.
Reg(q, d, ce) == IF ce THEN d ELSE q

\* signal.reg(clk, rst, ce=ce): reset to rst_value.
RegRst(q, d, ce, rst, rst_value) ==
  IF rst THEN rst_value ELSE IF ce THEN d ELSE q

\* The compressed manifest: word i of the ROM.
ROMContents(i) == Word32(43981, i % 65536)


\* ---------------------------------------------------- read path: the wires
\* A register that holds no value yet reads as any value.
View(reg) == IF reg = Undef THEN RdAddrs ELSE {reg}

\* Mutant: the address channel is always ready, as awready and wready are.
arready_always == TRUE

arready == ~req_outstanding

\* Mutant: the address is captured on arvalid alone.
address_written_on_arvalid == in.arvalid

address_written == in.arvalid /\ ~req_outstanding

rvalid == data_out_valid

rdata == data_pipeline_reg

rresp == data_pipeline_rresp_reg

\* Mutant: the response counts as transmitted whether or not rready is high.
response_written_no_rready == data_out_valid

\* Mutant: a read response is not taken while a write response is presented.
response_written_unless_write ==
  data_out_valid /\ in.rready /\ ~(latched_aw /\ latched_w)

response_written == data_out_valid /\ in.rready

\* address[2:]
address_words(a) == a \div 4

\* address_words[initial_offset.bit_length() - 2:]
header_upper(a) == address_words(a) \div Pow2(bit_length(initial_offset) - 2)

header_sel(a) == header_upper(a) = 0

\* Mutant: the two magic words in each other's slot.
header_swapped ==
  <<ToWord(0), ToWord(0), MagicNumberHi, MagicNumberLo,
    ToWord(VersionNumber), ToWord(manifest_loc)>>

header ==
  <<ToWord(0), ToWord(0), MagicNumberLo, MagicNumberHi,
    ToWord(VersionNumber), ToWord(manifest_loc)>>

\* Mutant: the header answers with the latency of the ROM.
header_response_valid_late == mani_valid_reg[2]

header_response_valid == address_valid

\* header[address[2:5]]; x is what an index past the array reads.
header_out(a, x) ==
  LET i == (a \div 4) % 8 IN IF i < Len(header) THEN header[i + 1] ELSE x

header_rresp == 0

\* (address_words.as_uint() - (manifest_loc >> 2)).as_bits(30)
rom_address(a) == (address_words(a) - (manifest_loc \div 4)) % Pow2(30)

\* ESI_Manifest_ROM: data is two cycles delayed after the address changes.
\* rom_pipe[1] is the word read one cycle ago, rom_pipe[2] is the data port.
mani_rom_next ==
  <<IF address = Undef THEN UndefWord
     ELSE ROMContents(rom_address(address)),
    rom_pipe[1]>>

mani_rom_data(x) == IF rom_pipe[2] = UndefWord THEN x ELSE rom_pipe[2]

\* Mutant: the valid of the ROM is delayed by one cycle, not two.
mani_valid_one_cycle == mani_valid_reg[1]

\* address_valid.reg(clk, rst, rst_value=0, cycles=2)
mani_valid == mani_valid_reg[2]

mani_rresp == 0

sel(a) == ~header_sel(a)

Mux(s, in0, in1) == IF s THEN in1 ELSE in0

data_pipeline(a, x) == Mux(sel(a), header_out(a, x), mani_rom_data(x))

\* Mutant: no multiplexer on the valid, either source validates the response.
data_pipeline_valid_either(a) == header_response_valid \/ mani_valid

data_pipeline_valid(a) == Mux(sel(a), header_response_valid, mani_valid)

data_pipeline_rresp(a) == Mux(sel(a), header_rresp, mani_rresp)

\* --------------------------------------------------- write path: the wires
is_write_lo == (in.awaddr = manifest_offset) /\ in.awvalid

\* Mutant: the high half decoded at the offset of the low half.
is_write_hi_at_lo == (in.awaddr = manifest_offset) /\ in.awvalid

is_write_hi == (in.awaddr = manifest_offset + 4) /\ in.awvalid

\* Mutant: either half triggers.
trigger_write_either == addr_lo_valid \/ addr_hi_valid

trigger_write == addr_lo_valid /\ addr_hi_valid

\* Mutant: one latched phase is enough for the response.
write_happened_either == latched_aw \/ latched_w

write_happened == latched_aw /\ latched_w

\* Mutant: the address channel is ready only while no address phase is
\* latched.
awready_while_free == ~latched_aw

awready == TRUE

wready == TRUE

bvalid == write_happened

bresp == 0

\* ------------------------------------------------------- bus level events
ArHandshake == in.arvalid /\ arready

RHandshake == rvalid /\ in.rready

AwHandshake == in.awvalid /\ awready

WHandshake == in.wvalid /\ wready


\* -------------------------------------------------------------- observers
\* What a monitor on the bus records; rst ends every transaction.
LoWrite == in.awvalid /\ in.awaddr = manifest_offset

HiWrite == in.awvalid /\ in.awaddr = manifest_offset + 4

\* A count of accepted phases no response has answered yet, after a cycle
\* that accepts one (gain) and answers one (lose).  The monitor counts up to
\* MaxCredit; MaxCredit + 1 stands for a count that has gone beyond it and is
\* kept until reset.
Credit(c, gain, lose) ==
  IF c > MaxCredit THEN c
  ELSE (IF lose /\ c > 0 THEN c - 1 ELSE c) + (IF gain THEN 1 ELSE 0)

Observe ==
  /\ rd_open' = IF in.rst THEN FALSE
                ELSE IF ArHandshake THEN TRUE
                ELSE IF RHandshake THEN FALSE
                ELSE rd_open
  \* cycles since the address handshake of the open read, 0 when none is open
  /\ rd_age' = IF in.rst THEN 0
               ELSE IF ArHandshake THEN 1
               ELSE IF RHandshake \/ rd_age = 0 THEN 0
               ELSE Min(MaxAge, rd_age + 1)
  \* accepted address / data phases no response has answered yet
  /\ aw_credit' = IF in.rst THEN 0 ELSE Credit(aw_credit, AwHandshake, bvalid)
  /\ w_credit' = IF in.rst THEN 0 ELSE Credit(w_credit, WHandshake, bvalid)
  \* the writes to the two manifest offsets since reset, in order;
  \* <<"more">> once there are more than MaxHist
  /\ wr_hist' = IF in.rst THEN <<>>
                ELSE IF ~(LoWrite \/ HiWrite) \/ wr_hist = <<"more">>
                  THEN wr_hist
                ELSE IF Len(wr_hist) = MaxHist THEN <<"more">>
                ELSE Append(wr_hist, IF LoWrite THEN "lo" ELSE "hi")
  \* cycles with trigger_write asserted since reset
  /\ trig_count' = IF in.rst THEN 0
                   ELSE IF trigger_write THEN Min(MaxTrig, trig_count + 1)
                   ELSE trig_count
  \* a write to the half in a cycle after the last trigger cycle
  /\ since_lo' = IF in.rst \/ trigger_write THEN FALSE ELSE since_lo \/ LoWrite
  /\ since_hi' = IF in.rst \/ trigger_write THEN FALSE ELSE since_hi \/ HiWrite
  \* a write to the half in the last trigger cycle or after it
  /\ wrote_lo' = IF in.rst THEN FALSE
                 ELSE LoWrite \/ (wrote_lo /\ ~trigger_write)
  /\ wrote_hi' = IF in.rst THEN FALSE
                 ELSE HiWrite \/ (wrote_hi /\ ~trigger_write)
  \* address handshakes less response handshakes since reset, kept within
  \* -1 .. 2
  /\ rd_pending' = IF in.rst THEN 0
                   ELSE Max(0 - 1, Min(2, rd_pending
                                         + (IF ArHandshake THEN 1 ELSE 0)
                                         - (IF RHandshake THEN 1 ELSE 0)))
  \* awvalid / wvalid was asserted in the last cycle with a write response or
  \* in a later one
  /\ aw_seen' = IF in.rst THEN FALSE
                ELSE in.awvalid \/ (aw_seen /\ ~bvalid)
  /\ w_seen' = IF in.rst THEN FALSE
               ELSE in.wvalid \/ (w_seen /\ ~bvalid)
  /\ UNCHANGED twinVars
  \* the times rvalid has risen since the last address handshake, up to 2
  /\ rv_periods' = IF in.rst THEN 0
                   ELSE Min(2, (IF ArHandshake THEN 0 ELSE rv_periods)
                               + (IF ~rvalid /\ rvalid' THEN 1 ELSE 0))

\* ------------------------------------------------------------ the circuit
\* What the response registers <<data_out_valid, data_pipeline_reg,
\* data_pipeline_rresp_reg>> can hold after this edge: one value for each
\* value the address register can read as and each value an undefined data
\* word can read as.
ResponseRegsNext ==
  {<<ControlReg(data_out_valid, data_pipeline_valid(a), response_written,
                in.rst),
     RegRst(data_pipeline_reg, data_pipeline(a, x), data_pipeline_valid(a),
            in.rst, ToWord(0)),
     RegRst(data_pipeline_rresp_reg, data_pipeline_rresp(a),
            data_pipeline_valid(a), in.rst, 0)>> :
     a \in View(address), x \in XWords}

\* The values the undriven wire write_done can take.
WriteDoneValues == BOOLEAN

\* Mutant: the response handshake does not release req_outstanding.
ReadEdge_never_released(r) ==
  /\ req_outstanding' =
       ControlReg(req_outstanding, address_written, FALSE, in.rst)
  /\ address' = Reg(address, in.araddr, address_written)
  /\ address_valid' = address_written
  /\ mani_valid_reg' = <<RegRst(mani_valid_reg[1], address_valid, TRUE,
                                in.rst, FALSE),
                         RegRst(mani_valid_reg[2], mani_valid_reg[1], TRUE,
                                in.rst, FALSE)>>
  /\ data_out_valid' = r[1]
  /\ data_pipeline_reg' = r[2]
  /\ data_pipeline_rresp_reg' = r[3]
  /\ rom_pipe' = mani_rom_next

\* One clock edge of the read path; r is one of ResponseRegsNext.
ReadEdge(r) ==
  /\ req_outstanding' =
       ControlReg(req_outstanding, address_written, response_written, in.rst)
  /\ address' = Reg(address, in.araddr, address_written)
  /\ address_valid' = address_written
  /\ mani_valid_reg' = <<RegRst(mani_valid_reg[1], address_valid, TRUE,
                                in.rst, FALSE),
                         RegRst(mani_valid_reg[2], mani_valid_reg[1], TRUE,
                                in.rst, FALSE)>>
  /\ data_out_valid' = r[1]
  /\ data_pipeline_reg' = r[2]
  /\ data_pipeline_rresp_reg' = r[3]
  /\ rom_pipe' = mani_rom_next

\* Mutant: the trigger clears the low half only.
ManifestWriteEdge_hi_kept(w) ==
  /\ addr_lo' = Reg(addr_lo, in.awaddr, is_write_lo)
  /\ addr_lo_valid' =
       ControlReg(addr_lo_valid, is_write_lo, trigger_write, in.rst)
  /\ addr_hi' = Reg(addr_hi, in.awaddr, is_write_lo)
  /\ addr_hi_valid' = ControlReg(addr_hi_valid, is_write_hi, FALSE, in.rst)
  /\ writing' = w

\* One clock edge of the write path; w is one of the values writing can take.
ManifestWriteEdge(w) ==
  /\ addr_lo' = Reg(addr_lo, in.awaddr, is_write_lo)
  /\ addr_lo_valid' =
       ControlReg(addr_lo_valid, is_write_lo, trigger_write, in.rst)
  /\ addr_hi' = Reg(addr_hi, in.awaddr, is_write_lo)
  /\ addr_hi_valid' =
       ControlReg(addr_hi_valid, is_write_hi, trigger_write, in.rst)
  /\ writing' = w

\* Mutant: the response is held until bready takes it.
WriteEdge_until_bready(w) ==
  /\ ManifestWriteEdge(w)
  /\ latched_aw' = ControlReg(latched_aw, in.awvalid,
                              write_happened /\ in.bready, in.rst)
  /\ latched_w' = ControlReg(latched_w, in.wvalid,
                             write_happened /\ in.bready, in.rst)

WriteEdge(w) ==
  /\ ManifestWriteEdge(w)
  /\ latched_aw' = ControlReg(latched_aw, in.awvalid, write_happened, in.rst)
  /\ latched_w' = ControlReg(latched_w, in.wvalid, write_happened, in.rst)

\* The inputs of the next cycle, any of the set I: the ports take every
\* value in every cycle.
NextInputs(I) == in' \in I

Edge(I) ==
  /\ pc = "hw"
  /\ \E r \in ResponseRegsNext : ReadEdge(r)
  /\ \E w \in {ControlReg(writing, trigger_write, wd, in.rst) :
                 wd \in WriteDoneValues} : WriteEdge(w)
  /\ Observe
  /\ NextInputs(I)
  /\ UNCHANGED <<pc, tableVars>>

\* A clock edge with rst low.
Clock(I) == ~in.rst /\ Edge(I)

\* A clock edge with rst high.
Reset(I) == in.rst /\ Edge(I)

\* A clock edge of the circuit with no monitor on the bus: the observers
\* stay as they are.
BareEdge(I) ==
  /\ pc = "hw"
  /\ \E r \in ResponseRegsNext : ReadEdge(r)
  /\ \E w \in {ControlReg(writing, trigger_write, wd, in.rst) :
                 wd \in WriteDoneValues} : WriteEdge(w)
  /\ in' \in I
  /\ UNCHANGED <<pc, tableVars, obsVars>>

\* ------------------------------------------------- two runs of the circuit
\* Two runs of the circuit are stepped in turn, cycle by cycle, both by the
\* clock edge TwinEdge: run A on inputs from BothInputs, run B on the same
\* inputs for the path under comparison and idle channels for the other
\* path, or, when bready is under comparison, run A on inputs from
\* WriteInputs and run B on the same inputs but for bready.  The registers,
\* outputs and inputs of the run whose turn it is not wait in `twin`.
Outputs == <<arready, rvalid, rdata, rresp, trigger_write, bvalid>>

\* The inputs of run B for the inputs i of run A.
OwnInputs(i, s) ==
  IF s = "read"
    THEN Inp(i.rst, <<i.arvalid, i.araddr>>, i.rready, IdleChan, FALSE, FALSE)
    ELSE Inp(i.rst, IdleChan, FALSE, <<i.awvalid, i.awaddr>>, i.wvalid, FALSE)

\* The inputs of run B for the inputs i of run A when the two runs differ in
\* bready alone: every other input is the same, bready is free.
BreadyInputs(i) == {[i EXCEPT !.bready = b] : b \in BOOLEAN}

\* The inputs run B can get for the inputs i of run A.
TwinInputs(i, s) ==
  IF s = "bready" THEN BreadyInputs(i) ELSE {OwnInputs(i, s)}

\* The inputs run A can get in its next cycle.
RunInputs(s) == IF s = "bready" THEN WriteInputs ELSE BothInputs

\* The comparison starts, for one of the two paths or for bready.
TwinStart ==
  /\ pc = "hw" /\ turn = "off"
  /\ side' \in {"read", "write", "bready"}
  /\ turn' = "A"
  /\ UNCHANGED <<pc, tableVars, in, rdRegs, wrRegs, busVars, twin>>

\* A clock edge of the run whose registers are in the circuit.
TwinEdge ==
  /\ pc = "hw" /\ turn \in {"A", "B"}
  /\ \E r \in ResponseRegsNext : ReadEdge(r)
  /\ \E w \in {ControlReg(writing, trigger_write, wd, in.rst) :
                 wd \in WriteDoneValues} : WriteEdge(w)
  /\ turn' = (IF turn = "A" THEN "toB" ELSE "toA")
  /\ UNCHANGED <<pc, tableVars, in, busVars, twin, side>>

\* The registers of the two runs change places.
Exchange ==
  /\ req_outstanding' = twin.rd[1] /\ address' = twin.rd[2]
  /\ address_valid' = twin.rd[3] /\ mani_valid_reg' = twin.rd[4]
  /\ data_out_valid' = twin.rd[5] /\ data_pipeline_reg' = twin.rd[6]
  /\ data_pipeline_rresp_reg' = twin.rd[7] /\ rom_pipe' = twin.rd[8]
  /\ addr_lo' = twin.wr[1] /\ addr_lo_valid' = twin.wr[2]
  /\ addr_hi' = twin.wr[3] /\ addr_hi_valid' = twin.wr[4]
  /\ writing' = twin.wr[5] /\ latched_aw' = twin.wr[6]
  /\ latched_w' = twin.wr[7]
  /\ twin' = [rd |-> rdRegs, wr |-> wrRegs, out |-> Outputs, in |-> in]

\* Run A has made its edge: run B comes in, on its inputs for the same cycle.
TwinToB ==
  /\ pc = "hw" /\ turn = "toB"
  /\ Exchange
  /\ in' \in TwinInputs(in, side)
  /\ turn' = "B"
  /\ UNCHANGED <<pc, tableVars, busVars, side>>

\* Run B has made its edge: run A comes back, with the inputs of the next
\* cycle.
TwinToA ==
  /\ pc = "hw" /\ turn = "toA"
  /\ Exchange
  /\ in' \in RunInputs(side)
  /\ turn' = "A"
  /\ UNCHANGED <<pc, tableVars, busVars, side>>

\* generate: build_read and build_write elaborate the circuit from
\* manifest_loc alone; the tables are handed over and never read, and die
\* with the call.  The circuit starts from its state after reset; a register
\* without reset holds no value.
Generate(I) ==
  /\ pc = "generate"
  /\ pc' = "hw"
  /\ bundles' = <<>> /\ idx' = 1 /\ offset' = initial_offset
  /\ read_table' = EmptyTable /\ write_table' = EmptyTable
  /\ UNCHANGED <<manifest_loc, rdRegs, wrRegs, obsVars>>
  /\ NextInputs(I)

Init ==
  /\ pc = "build_table"
  /\ bundles \in BundleLists
  /\ idx = 1
  /\ offset = initial_offset
  /\ read_table = EmptyTable
  /\ write_table = EmptyTable
  /\ manifest_loc = 0
  /\ in = Idle
  /\ req_outstanding = FALSE
  /\ address = Undef
  /\ address_valid = FALSE
  /\ mani_valid_reg = <<FALSE, FALSE>>
  /\ data_out_valid = FALSE
  /\ data_pipeline_reg = ToWord(0)
  /\ data_pipeline_rresp_reg = 0
  /\ rom_pipe = <<UndefWord, UndefWord>>
  /\ addr_lo = Undef
  /\ addr_lo_valid = FALSE
  /\ addr_hi = Undef
  /\ addr_hi_valid = FALSE
  /\ writing = FALSE
  /\ latched_aw = FALSE
  /\ latched_w = FALSE
  /\ rd_open = FALSE
  /\ rd_age = 0
  /\ aw_credit = 0
  /\ w_credit = 0
  /\ wr_hist = <<>>
  /\ trig_count = 0
  /\ since_lo = FALSE
  /\ since_hi = FALSE
  /\ wrote_lo = FALSE
  /\ wrote_hi = FALSE
  /\ rd_pending = 0
  /\ rv_periods = 0
  /\ aw_seen = FALSE
  /\ w_seen = FALSE
  /\ twin = [rd |-> rdRegs, wr |-> wrRegs, out |-> Outputs, in |-> in]
  /\ turn = "off"
  /\ side = "read"

\* --------------------------------------------------------- specifications
\* Both channels driven.
Next ==
  \/ TableStep
  \/ TableReturn
  \/ Generate(AllInputs)
  \/ Clock(AllInputs)
  \/ Reset(AllInputs)

Spec == Init /\ [][Next]_vars

\* build_table alone.
NextTable == TableStep \/ TableReturn

SpecTable == Init /\ [][NextTable]_vars

\* The read channels driven, the write channels idle.
NextRead ==
  \/ TableStep
  \/ TableReturn
  \/ Generate(ReadInputs)
  \/ Clock(ReadInputs)
  \/ Reset(ReadInputs)

SpecRead == Init /\ [][NextRead]_vars

\* The read channels driven from the reduced input set, and time passes:
\* elaboration runs to its end and clk keeps ticking.  Nothing is asked of
\* the requester.
NextReadFair ==
  \/ TableStep
  \/ TableReturn
  \/ Generate(ProgressInputs)
  \/ Clock(ProgressInputs)
  \/ Reset(ProgressInputs)

SpecReadFair == Init /\ [][NextReadFair]_vars /\ WF_vars(NextReadFair)

\* The write channels driven, the read channels idle.
NextWrite ==
  \/ TableStep
  \/ TableReturn
  \/ Generate(WriteInputs)
  \/ Clock(WriteInputs)
  \/ Reset(WriteInputs)

SpecWrite == Init /\ [][NextWrite]_vars

\* The read channels driven, arvalid free while rst is high.
NextReadAnyReset ==
  \/ TableStep
  \/ TableReturn
  \/ Generate(ReadAnyInputs)
  \/ Clock(ReadAnyInputs)
  \/ Reset(ReadAnyInputs)

SpecReadAnyReset == Init /\ [][NextReadAnyReset]_vars

\* Two runs that differ in the inputs of one path only.
NextTwin ==
  \/ TableStep
  \/ TableReturn
  \/ Generate(BothInputs)
  \/ TwinStart
  \/ TwinEdge
  \/ TwinToB
  \/ TwinToA

SpecTwin == Init /\ [][NextTwin]_vars

\* Both channels driven at once, from the reduced input set.
NextBoth ==
  \/ TableStep
  \/ TableReturn
  \/ Generate(BothInputs)
  \/ BareEdge(BothInputs)

SpecBoth == Init /\ [][NextBoth]_vars


\* ------------------------------------------------------------------ claims
InHw == pc = "hw"

\* C1: single outstanding read.  No read address handshake (arvalid and
\* arready in one cycle) occurs while an accepted read still waits for its
\* response handshake, and arready is low in every cycle in which
\* req_outstanding is set.
C1_SingleOutstandingRead ==
  InHw =>
    /\ req_outstanding => ~arready
    /\ rd_open => ~arready
    /\ ArHandshake => ~rd_open

\* A second arvalid is offered, and refused, while the response of an
\* accepted read is presented and not taken.
C1_Witness ==
  InHw /\ rd_open /\ rvalid /\ in.arvalid /\ ~in.rready /\ ~arready

\* C2: header read latency and data.  For an accepted read whose registered
\* address has a zero header selector zone, data_pipeline_valid is asserted
\* in the first cycle the registered address is visible (and in no other
\* cycle of the read), and the data presented with rvalid is the header word
\* indexed by the word bits of the address.
C2_HeaderRead ==
  (InHw /\ rd_open /\ header_sel(address)) =>
    /\ data_pipeline_valid(address) <=> (rd_age = 1)
    /\ (rvalid /\ (address \div 4) % 8 < 6) =>
         rdata = header[((address \div 4) % 8) + 1]

\* The read of the unaligned address 0x0A presents word 2 in the second
\* cycle after its handshake.
C2_Witness ==
  /\ InHw /\ rd_open /\ rd_age = 2 /\ rvalid
  /\ address = 10 /\ rdata = MagicNumberLo

\* C3: backing-store read latency and data.  For an accepted read whose
\* registered address has a non-zero header selector zone,
\* data_pipeline_valid is asserted exactly two cycles after the first cycle
\* the registered address is visible, the ROM's data output in that cycle is
\* the word at index word_address - (manifest_loc >> 2) (as a 30-bit
\* number), and that word is the data presented with rvalid.
C3_RomIndex ==
  ((address \div 4) - (manifest_loc \div 4)) % 1073741824

C3_BackingStoreRead ==
  (InHw /\ rd_open /\ ~header_sel(address)) =>
    /\ data_pipeline_valid(address) <=> (rd_age = 3)
    /\ rd_age = 3 => rom_pipe[2] = ROMContents(C3_RomIndex)
    /\ rvalid => (rd_age > 3 /\ rdata = ROMContents(C3_RomIndex))

\* The read of 0x404 with the ROM at 0x400 presents word 1 of the ROM.
C3_Witness ==
  /\ InHw /\ rd_open /\ rvalid /\ rd_age = 4
  /\ address = 1028 /\ manifest_loc = 1024 /\ rdata = ROMContents(1)

\* C4: header readback.  A completed read of word 2 (0x08) returns
\* 0xE5100E51, of word 3 (0x0C) 0x207D98E5, of word 4 (0x10) 0, and of word 5
\* (0x14) the manifest_loc that build_table returned.
C4_HeaderReadback ==
  (InHw /\ rd_open /\ RHandshake) =>
    /\ address \div 4 = 2 => rdata = Word32(58640, 3665)
    /\ address \div 4 = 3 => rdata = Word32(8317, 39141)
    /\ address \div 4 = 4 => rdata = Word32(0, 0)
    /\ address \div 4 = 5 =>
         rdata = Word32(manifest_loc \div 65536, manifest_loc % 65536)

\* A read of 0x14 completes with the base of a table of 64 endpoints.
C4_Witness ==
  /\ InHw /\ rd_open /\ RHandshake /\ address = 20
  /\ manifest_loc = 1024 /\ rdata = Word32(0, 1024)

\* C10: read starvation.  From the cycle a read is accepted on, as long as
\* no cycle has rvalid and rready both high (and rst stays low),
\* req_outstanding is set and arready low in the next cycle, no arvalid is
\* accepted, the registered address is kept, and a response that is
\* presented stays presented with the same data and status.
C10_ReadStarvation ==
  [][(InHw /\ (rd_open \/ ArHandshake) /\ ~in.rst /\ ~RHandshake) =>
       /\ req_outstanding' /\ ~arready' /\ ~ArHandshake' /\ rd_open'
       /\ rd_open => address' = address
       /\ rvalid => (rvalid' /\ rdata' = rdata /\ rresp' = rresp)]_vars

\* A response has been presented for MaxAge cycles or more, rready is low,
\* and an arvalid is held off.
C10_Witness ==
  /\ InHw /\ rd_open /\ rvalid /\ rd_age = MaxAge
  /\ in.arvalid /\ ~in.rready /\ ~arready


\* C5: write acknowledgment is total and exact.  A response answers a write
\* whose address phase and data phase were both accepted and not yet
\* answered (no response twice), and no accepted write is left: the write
\* channels are never at rest (awvalid and wvalid low, no response in this
\* cycle, so that no register of the acknowledgment changes any more) while an
\* accepted address phase and an accepted data phase are unanswered (by the
\* monitor's exact count, up to MaxCredit of each).
C5_WriteAckTotalExact ==
  InHw =>
    /\ bvalid => (aw_credit > 0 /\ w_credit > 0)
    /\ (~in.rst /\ ~in.awvalid /\ ~in.wvalid /\ ~bvalid) =>
         ~(aw_credit \in 1..MaxCredit /\ w_credit \in 1..MaxCredit)

\* C6 as stated: trigger_write is asserted in a cycle if and only if a write
\* to the low-half offset and a write to the high-half offset have each
\* occurred in a cycle after the last cycle with trigger_write asserted (or
\* after reset).
C6_TriggerIffBothSince ==
  InHw => (trigger_write <=> (since_lo /\ since_hi))

\* C6 amended: trigger_write is asserted in a cycle if and only if a write to
\* the low-half offset and a write to the high-half offset have each occurred
\* in an earlier cycle that is the last cycle with trigger_write asserted or
\* a later one (or any cycle after reset).
C6_TriggerIffBothWritten ==
  InHw => (trigger_write <=> (wrote_lo /\ wrote_hi))

\* The trigger fires on a low half written in the previous trigger cycle and a
\* high half written after it.
C6_Witness ==
  InHw /\ trigger_write /\ trig_count > 0 /\ wrote_lo /\ wrote_hi /\ ~since_lo

\* C7 as stated: in every cycle with trigger_write asserted, both
\* addr_lo_valid and addr_hi_valid are clear after the following clock edge,
\* whatever the write-channel inputs are.
C7_TriggerClearsBoth ==
  [][(InHw /\ trigger_write) => (~addr_lo_valid' /\ ~addr_hi_valid')]_vars

\* C7 amended: in every cycle with trigger_write asserted, after the
\* following clock edge addr_lo_valid is set exactly if that cycle writes the
\* low-half offset (with rst low) and addr_hi_valid exactly if it writes the
\* high-half offset; the two are never both set, so trigger_write is low in
\* the next cycle.
C7_TriggerClearsUnwritten ==
  [][(InHw /\ trigger_write) =>
       /\ addr_lo_valid' <=> (LoWrite /\ ~in.rst)
       /\ addr_hi_valid' <=> (HiWrite /\ ~in.rst)
       /\ ~trigger_write']_vars

\* The cycle after a trigger cycle that wrote the low-half offset: the low
\* half is still valid, the high half is not.
C7_Witness ==
  /\ InHw /\ trig_count > 0 /\ addr_lo_valid /\ ~addr_hi_valid
  /\ ~since_lo /\ wrote_lo

\* The number of cycles with trigger_write asserted since reset, this cycle
\* included.
C8_Pulses == trig_count + (IF trigger_write THEN 1 ELSE 0)

\* C8: from reset, a write to the low-half offset followed by a write to the
\* high-half offset gives exactly one cycle with trigger_write asserted, and
\* so do two writes to the high-half offset followed by one to the low-half
\* offset; before the last of these writes there is none.
C8_TriggerOrderAndCount ==
  InHw =>
    /\ wr_hist \in {<<"lo", "hi">>, <<"hi", "hi", "lo">>} => C8_Pulses = 1
    /\ wr_hist \in {<<>>, <<"lo">>, <<"hi">>, <<"hi", "hi">>} => C8_Pulses = 0

\* High, high, low have been written and the one pulse is over.
C8_Witness ==
  /\ InHw /\ wr_hist = <<"hi", "hi", "lo">> /\ trig_count = 1
  /\ ~trigger_write /\ ~addr_lo_valid /\ ~addr_hi_valid

\* The offsets build_table has assigned, and the bundles it has put in a
\* table.
C9_Offsets == DOMAIN read_table \cup DOMAIN write_table

C9_Recognized == {k \in 1..Len(bundles) : bundles[k] \in {"Input", "Output"}}

\* C9: address table well-formedness.  When build_table returns, every read-
\* or write-direction bundle has an offset of its own in the table of its
\* direction, no offset is in both tables, every offset is a multiple of 4
\* and at least 0x100, the first is 0x100, and manifest_loc is a power of two
\* greater than every offset.
C9_TableWellFormed ==
  pc = "generate" =>
    /\ DOMAIN read_table \cap DOMAIN write_table = {}
    /\ Cardinality(C9_Offsets) = Cardinality(C9_Recognized)
    /\ \A k \in C9_Recognized :
         \E o \in C9_Offsets :
           IF bundles[k] = "Input"
             THEN o \in DOMAIN read_table /\ read_table[o] = k
             ELSE o \in DOMAIN write_table /\ write_table[o] = k
    /\ \A o \in C9_Offsets : o % 4 = 0 /\ o >= 256 /\ manifest_loc > o
    /\ C9_Recognized # {} => 256 \in C9_Offsets
    /\ \E k \in 0..20 : manifest_loc = 2 ^ k

\* 64 bundles, of both directions, have their offsets and the base is 0x400.
C9_Witness ==
  /\ pc = "generate" /\ Cardinality(C9_Offsets) = 64
  /\ DOMAIN read_table # {} /\ DOMAIN write_table # {}
  /\ manifest_loc = 1024

\* C11: read/write path isolation.  Of two runs from reset with the same rst
\* and read-channel inputs, one with the write channels driven and one with
\* the write channels idle, the read path's state and outputs
\* (req_outstanding, address, data_out_valid, arready, rvalid, rdata, rresp)
\* are the same in every cycle; of two runs with the same rst and
\* write-channel inputs, one with the read channels driven and one with them
\* idle, the write path's state and outputs (latched_aw, latched_w,
\* addr_lo_valid, addr_hi_valid, trigger_write, bvalid) are the same in every
\* cycle.
C11_PathIsolation ==
  (InHw /\ turn = "A") =>
    /\ side = "read" =>
         /\ <<req_outstanding, address, data_out_valid>>
              = <<twin.rd[1], twin.rd[2], twin.rd[5]>>
         /\ <<arready, rvalid, rdata, rresp>>
              = <<twin.out[1], twin.out[2], twin.out[3], twin.out[4]>>
    /\ side = "write" =>
         /\ <<latched_aw, latched_w, addr_lo_valid, addr_hi_valid>>
              = <<twin.wr[6], twin.wr[7], twin.wr[2], twin.wr[4]>>
         /\ <<trigger_write, bvalid>> = <<twin.out[5], twin.out[6]>>

\* The read paths are compared in a cycle in which a read response is taken
\* while the first run presents a write response and the second run has seen
\* no write.
C11_Witness ==
  /\ InHw /\ turn = "A" /\ side = "read"
  /\ rvalid /\ in.rready /\ bvalid /\ addr_lo_valid
  /\ ~twin.out[6] /\ ~twin.wr[6] /\ twin.out[2]

\* C12: no write ever blocks or fails.  In every cycle awready and wready are
\* asserted, and the status codes bresp and rresp are the success value 0.
C12_NeverBlocksNeverFails ==
  InHw => (awready /\ wready /\ bresp = 0 /\ rresp = 0)

\* A new address phase and data phase are offered in a cycle in which the
\* response to the previous write and the response to a backing-store read
\* are both presented.
C12_Witness ==
  /\ InHw /\ bvalid /\ latched_aw /\ in.awvalid /\ in.wvalid
  /\ rvalid /\ address = 512

\* C13: no missed or duplicated read transactions.  The response handshakes
\* never outnumber the address handshakes and lag them by at most one;
\* rvalid is asserted only for an accepted read that has not had its response
\* handshake; rvalid rises at most once for an accepted read, has risen once
\* by the fourth cycle after the handshake and whenever it is asserted, and
\* falls with the response handshake.
C13_NoMissedNoDuplicatedRead ==
  InHw =>
    /\ rd_pending \in {0, 1}
    /\ rd_open <=> (rd_pending = 1)
    /\ rvalid => (rd_pending = 1 /\ rv_periods = 1)
    /\ rv_periods <= 1
    /\ rd_age >= 4 => (rvalid /\ rv_periods = 1)

\* The response of a backing-store read, held for a cycle or more, is taken.
C13_Witness ==
  /\ InHw /\ RHandshake /\ rd_age = MaxAge /\ rd_pending = 1
  /\ rv_periods = 1 /\ address = 512

\* bvalid is asserted exactly when awvalid and wvalid have each been asserted
\* in an earlier cycle not before the last response cycle, and a response
\* that was not there the cycle before follows a cycle that asserted a phase:
\* the response comes one cycle after the later latching cycle.
C14_Timing ==
  /\ [](InHw => (bvalid <=> (aw_seen /\ w_seen)))
  /\ [][(InHw /\ ~bvalid /\ bvalid') => (in.awvalid \/ in.wvalid)]_vars

\* C14 as stated: write response timing as above, and the response event
\* clears both phase latches.
C14_ResponseClearsBoth ==
  /\ C14_Timing
  /\ [][(InHw /\ bvalid) => (~latched_aw' /\ ~latched_w')]_vars

\* C14 amended: write response timing as above, and the response event
\* clears the latch of each phase that is not asserted in the response cycle;
\* the latch of a phase asserted in the response cycle stays set.
C14_ResponseClearsUnasserted ==
  /\ C14_Timing
  /\ [][(InHw /\ bvalid) =>
          /\ latched_aw' <=> (in.awvalid /\ ~in.rst)
          /\ latched_w' <=> (in.wvalid /\ ~in.rst)]_vars

\* A response cycle in which awvalid is asserted again and wvalid is not: the
\* edge that follows keeps the address latch and clears the data latch.
C14_Witness ==
  /\ InHw /\ bvalid /\ aw_seen /\ w_seen
  /\ ~in.rst /\ in.awvalid /\ ~in.wvalid

\* C15: symmetric half capture.  At every clock edge addr_hi takes the
\* address-phase payload of a write to the high-half offset and is unchanged
\* otherwise (so a write to the low-half offset leaves it unchanged), and
\* addr_lo takes the payload of a write to the low-half offset and is
\* unchanged otherwise.
C15_SymmetricHalfCapture ==
  [][InHw =>
       /\ addr_hi' = (IF HiWrite THEN in.awaddr ELSE addr_hi)
       /\ addr_lo' = (IF LoWrite THEN in.awaddr ELSE addr_lo)]_vars

\* The number of bundles with a recognized direction before position k.
C16_Rank(k) ==
  Cardinality({j \in 1..(k - 1) : bundles[j] \in {"Input", "Output"}})

\* The positions a table holds.
C16_Held(table) == {table[o] : o \in DOMAIN table}

\* C16: deterministic shared allocation order.  Throughout build_table, the
\* i-th bundle with a recognized direction that the loop has passed (counting
\* from 0) is at offset 0x100 + 4 * i in the table of its direction and not
\* in the other table, a bundle with an unrecognized direction is in neither
\* table and has not advanced the offset, and an empty sequence returns two
\* empty tables and the base 0x200, the least that build_table returns.
C16_SharedAllocationOrder ==
  pc \in {"build_table", "generate"} =>
    /\ \A k \in 1..(idx - 1) :
         LET o == 256 + 4 * C16_Rank(k) IN
           /\ bundles[k] = "Input" =>
                /\ o \in DOMAIN read_table /\ read_table[o] = k
                /\ k \notin C16_Held(write_table)
           /\ bundles[k] = "Output" =>
                /\ o \in DOMAIN write_table /\ write_table[o] = k
                /\ k \notin C16_Held(read_table)
           /\ bundles[k] = "Other" =>
                k \notin C16_Held(read_table) \cup C16_Held(write_table)
    /\ offset = 256 + 4 * C16_Rank(idx)
    /\ pc = "generate" =>
         /\ manifest_loc >= 512
         /\ bundles = <<>> =>
              /\ read_table = EmptyTable /\ write_table = EmptyTable
              /\ manifest_loc = 512

\* A bundle with an unrecognized direction sits between the long prefix and
\* a last read-direction bundle, which has the offset right after the
\* prefix's.
C16_Witness ==
  /\ pc = "generate" /\ Len(bundles) = LongPrefix + 2
  /\ bundles[LongPrefix + 1] = "Other" /\ bundles[LongPrefix + 2] = "Input"
  /\ (256 + 4 * LongPrefix) \in DOMAIN read_table
  /\ read_table[256 + 4 * LongPrefix] = LongPrefix + 2

\* The offset after the last entry of the read table alone.
C17_ReadFinalOffset ==
  IF read_table = EmptyTable THEN 256
  ELSE 4 + CHOOSE o \in DOMAIN read_table : \A q \in DOMAIN read_table : q <= o

\* C17 as stated: the base build_table returns is computed from the read
\* table's final offset only, whatever the write table holds (so that a
\* write-table offset allocated after the last read-direction bundle can be
\* at or above the base).
C17_BaseFromReadTableOnly ==
  pc = "generate" => manifest_loc = 2 ^ bit_length(C17_ReadFinalOffset)

\* C17 amended: the base is computed from the running offset after the last
\* bundle of either direction, so every offset of the write table, as every
\* offset of the read table, is below the base, also when write-direction
\* bundles are allocated after the last read-direction bundle.
C17_BaseFromSharedOffset ==
  pc = "generate" =>
    /\ manifest_loc =
         2 ^ bit_length(256 + 4 * (Cardinality(DOMAIN read_table)
                                   + Cardinality(DOMAIN write_table)))
    /\ \A o \in DOMAIN write_table \cup DOMAIN read_table : o < manifest_loc

\* A write-direction bundle allocated after the last read-direction bundle
\* has an offset at or above the power of two that the read table alone
\* would give, and below the base.
C17_Witness ==
  /\ pc = "generate"
  /\ \E o \in DOMAIN write_table :
       /\ \A q \in DOMAIN read_table : q < o
       /\ o >= 2 ^ bit_length(C17_ReadFinalOffset)
       /\ o < manifest_loc

\* C18: response valid implies outstanding.  In every cycle, also after a
\* reset during which arvalid was asserted, data_out_valid set implies
\* req_outstanding set, and address_written and response_written are not
\* asserted together.
C18_ValidImpliesOutstanding ==
  InHw =>
    /\ data_out_valid => req_outstanding
    /\ ~(address_written /\ response_written)

\* C19: response stability.  A response that is presented and not taken
\* (rvalid high, rready low, rst low) is presented in the next cycle too,
\* with the same rdata and rresp, so up to and including the first cycle with
\* rready high; and while req_outstanding is set the registered address, and
\* with it the select of the response multiplexers, does not change.
C19_ResponseStability ==
  [][InHw =>
       /\ (rvalid /\ ~in.rready /\ ~in.rst) =>
            (rvalid' /\ rdata' = rdata /\ rresp' = rresp)
       /\ req_outstanding =>
            (address' = address /\ sel(address') = sel(address))]_vars

\* A response held for several cycles is taken in a cycle in which the
\* requester already offers another address.
C19_Witness ==
  /\ InHw /\ req_outstanding /\ rvalid /\ rd_age = MaxAge
  /\ in.rready /\ in.arvalid /\ in.araddr # address
  /\ sel(in.araddr) # sel(address)

\* C20: the selector boundary matches the backing-store base.  For every
\* bundle list, a registered read address selects the backing store exactly
\* if it is at or above the manifest_loc that build_table returned, the
\* index of a backing-store-selected read is word_address - (manifest_loc >>
\* 2) without wrapping, and a read at manifest_loc has index 0.
C20_SelectorMatchesBase ==
  (InHw /\ address # Undef) =>
    /\ sel(address) <=> (address >= manifest_loc)
    /\ sel(address) =>
         /\ address_words(address) - (manifest_loc \div 4) >= 0
         /\ rom_address(address)
              = address_words(address) - (manifest_loc \div 4)
    /\ address = manifest_loc => rom_address(address) = 0

\* C21: the write response ignores bready.  Of two runs with the same rst,
\* awvalid, awaddr and wvalid inputs and bready free in each, the write
\* path's state and outputs (addr_lo, addr_lo_valid, addr_hi, addr_hi_valid,
\* latched_aw, latched_w, trigger_write, bvalid) are the same in every cycle;
\* and in either run a cycle with bvalid asserted in which awvalid and wvalid
\* are not both asserted is followed by a cycle with bvalid de-asserted,
\* whatever bready is.
C21_BreadyIgnored ==
  /\ []((InHw /\ turn = "A" /\ side = "bready") =>
          /\ <<addr_lo, addr_lo_valid, addr_hi, addr_hi_valid, latched_aw,
               latched_w>>
               = <<twin.wr[1], twin.wr[2], twin.wr[3], twin.wr[4], twin.wr[6],
                   twin.wr[7]>>
          /\ <<trigger_write, bvalid>> = <<twin.out[5], twin.out[6]>>)
  /\ [][(InHw /\ side = "bready" /\ turn \in {"A", "B"} /\ bvalid
           /\ ~(in.awvalid /\ in.wvalid)) => ~bvalid']_vars

\* The two runs are compared in a cycle that follows a response cycle in
\* which the first run had bready de-asserted and the second had it asserted,
\* and only one phase was asserted again: the response is gone in both.
C21_Witness ==
  /\ InHw /\ turn = "A" /\ side = "bready"
  /\ twin.in.bready /\ ~twin.in.rst /\ twin.in.awvalid /\ ~twin.in.wvalid
  /\ latched_aw /\ ~latched_w /\ ~bvalid /\ ~twin.out[6]
  /\ addr_lo_valid

\* The requester's part in C22: whenever rvalid is asserted, rready is
\* asserted in that cycle or a later one.  A requester that asserts rready
\* infinitely often does so.
C22_FairRequester == [](rvalid => <>in.rready)

\* C22: read progress under a fair requester.  If rready is eventually
\* asserted whenever rvalid is held, then every accepted read comes to a
\* cycle with rvalid and rready both asserted, its response handshake (or rst
\* ends it); arready, de-asserted while req_outstanding is set, is asserted
\* again; and an arvalid that is held asserted is eventually accepted.
C22_ReadProgress ==
  C22_FairRequester =>
    /\ (InHw /\ (ArHandshake \/ rd_open)) ~> (RHandshake \/ in.rst)
    /\ ~arready ~> arready
    /\ (InHw /\ in.arvalid) ~> (ArHandshake \/ ~in.arvalid)

\* An arvalid held asserted through a backing-store read whose response has
\* been presented for a while sees that response taken: it is accepted in the
\* cycle after the next.
C22_Witness ==
  /\ InHw /\ RHandshake /\ in.arvalid /\ ~arready
  /\ rd_age = MaxAge /\ address = 512

====
